---- MODULE Spec2Model ----
(***************************************************************************)
(* A model of run_visualizer.py: the schedule time parser, the schedule    *)
(* loader (pandas read + window scan + annotation text), the per-channel   *)
(* annotation placement, and the batch loop over session folders.          *)
(*                                                                         *)
(* Text is modelled as a sequence of one-character strings, so that        *)
(* lower(), replace(), strip(), substring tests and number formatting are  *)
(* computed, not assumed.                                                  *)
(***************************************************************************)
EXTENDS Integers, Sequences, FiniteSets, TLC

VARIABLES
    pc,             \* position of the running script / function under study
    time_str,       \* parse_time: the raw time text
    is_pm,          \* parse_time: the session's afternoon flag
    parsed,         \* parse_time: the returned Timestamp (or the raised ValueError)
    sched_file,     \* load_music_schedule: the schedule file (exists, rows of raw cells)
    folder_name,    \* load_music_schedule: data_folder_path
    schedule_data,  \* value returned by load_music_schedule
    emotibit_data,  \* process_folder: loaded channels, in dict order
    sig_i,          \* process_folder: index of the next channel to plot
    charts,         \* every chart written so far, in order
    subfolders,     \* __main__: the session folders found by scandir
    folder_i,       \* __main__: index of the folder being processed
    visited         \* __main__: indices of the folders process_folder was called on

vars == <<pc, time_str, is_pm, parsed, sched_file, folder_name, schedule_data,
          emotibit_data, sig_i, charts, subfolders, folder_i, visited>>

----------------------------------------------------------------------------
(* Bounds of the model *)

\* longest run of whitespace put around an am/pm suffix
MaxPad == 2
\* most data rows in a schedule file
MaxRows == 3
\* most session folders in the dataset root
MaxFolders == 3
\* most annotations in the list handed to the renderer
MaxAnnotations == 3

----------------------------------------------------------------------------
(* Text primitives (Python str methods) *)

Digits == <<"0", "1", "2", "3", "4", "5", "6", "7", "8", "9">>
UpperLetters == <<"A", "B", "C", "D", "E", "F", "G", "H", "I", "J", "K", "L", "M",
                  "N", "O", "P", "Q", "R", "S", "T", "U", "V", "W", "X", "Y", "Z">>
LowerLetters == <<"a", "b", "c", "d", "e", "f", "g", "h", "i", "j", "k", "l", "m",
                  "n", "o", "p", "q", "r", "s", "t", "u", "v", "w", "x", "y", "z">>
Whitespace == {" ", "\t", "\n"}

DigitTable == [c \in {Digits[i] : i \in 1..10} |-> (CHOOSE i \in 1..10 : Digits[i] = c) - 1]
IsDigit(c) == c \in DOMAIN DigitTable
DigitVal(c) == DigitTable[c]

LowerTable ==
    [c \in {UpperLetters[i] : i \in 1..26} |->
        LowerLetters[CHOOSE i \in 1..26 : UpperLetters[i] = c]]

\* str.lower() on one character
LowerChar(c) == IF c \in DOMAIN LowerTable THEN LowerTable[c] ELSE c

\* str.lower()
Lower(s) == [i \in 1..Len(s) |-> LowerChar(s[i])]

\* s.startswith(sub)
StartsWith(s, sub) == Len(s) >= Len(sub) /\ SubSeq(s, 1, Len(sub)) = sub

\* sub in s
RECURSIVE Contains(_, _)
Contains(s, sub) ==
    IF Len(s) < Len(sub) THEN FALSE
    ELSE IF StartsWith(s, sub) THEN TRUE
    ELSE Contains(Tail(s), sub)

\* s.replace(sub, ''): non-overlapping occurrences, left to right
RECURSIVE Remove(_, _)
Remove(s, sub) ==
    IF Len(s) < Len(sub) \/ Len(sub) = 0 THEN s
    ELSE IF StartsWith(s, sub) THEN Remove(SubSeq(s, Len(sub) + 1, Len(s)), sub)
    ELSE <<Head(s)>> \o Remove(Tail(s), sub)

RECURSIVE LStrip(_)
LStrip(s) == IF s # <<>> /\ Head(s) \in Whitespace THEN LStrip(Tail(s)) ELSE s

RECURSIVE RStrip(_)
RStrip(s) ==
    IF s # <<>> /\ s[Len(s)] \in Whitespace THEN RStrip(SubSeq(s, 1, Len(s) - 1)) ELSE s

\* s.strip()
Strip(s) == LStrip(RStrip(s))

\* s.split(sep) for a one-character separator
RECURSIVE Split(_, _)
Split(s, sep) ==
    IF \A i \in 1..Len(s) : s[i] # sep THEN <<s>>
    ELSE LET k == CHOOSE i \in 1..Len(s) : s[i] = sep /\ \A j \in 1..(i - 1) : s[j] # sep
         IN <<SubSeq(s, 1, k - 1)>> \o Split(SubSeq(s, k + 1, Len(s)), sep)

\* sep.join(parts)
RECURSIVE Join(_, _)
Join(parts, sep) ==
    IF parts = <<>> THEN <<>>
    ELSE IF Len(parts) = 1 THEN parts[1]
    ELSE parts[1] \o sep \o Join(Tail(parts), sep)

\* int(digits)
RECURSIVE ParseNat(_)
ParseNat(ds) ==
    IF ds = <<>> THEN 0 ELSE ParseNat(SubSeq(ds, 1, Len(ds) - 1)) * 10 + DigitVal(ds[Len(ds)])

\* str(n) for n >= 0
RECURSIVE FormatNat(_)
FormatNat(n) ==
    IF n < 10 THEN <<Digits[n + 1]>> ELSE FormatNat(n \div 10) \o <<Digits[(n % 10) + 1]>>

\* f"{n:02d}"
Format02d(n) == IF n < 10 THEN <<"0">> \o FormatNat(n) ELSE FormatNat(n)

----------------------------------------------------------------------------
(* parse_time *)

\* the Timestamp of a failed parse / Python None
NoTime == [ok |-> FALSE, date |-> <<>>, hour |-> 0, minute |-> 0, second |-> 0]

\* one %H / %M / %S directive: one or two digits, value at most hi
FieldOk(f, hi) ==
    /\ Len(f) \in {1, 2}
    /\ \A i \in 1..Len(f) : IsDigit(f[i])
    /\ ParseNat(f) <= hi

\* datetime.strptime(s, '%H:%M:%S').time(); ok = FALSE stands for ValueError
StrptimeHMS(s) ==
    LET f == Split(s, ":")
    IN IF Len(f) = 3 /\ FieldOk(f[1], 23) /\ FieldOk(f[2], 59) /\ FieldOk(f[3], 59)
       THEN [ok |-> TRUE, hour |-> ParseNat(f[1]), minute |-> ParseNat(f[2]),
             second |-> ParseNat(f[3])]
       ELSE [ok |-> FALSE, hour |-> 0, minute |-> 0, second |-> 0]

\* datetime.strptime(s, '%H:%M').time()
StrptimeHM(s) ==
    LET f == Split(s, ":")
    IN IF Len(f) = 2 /\ FieldOk(f[1], 23) /\ FieldOk(f[2], 59)
       THEN [ok |-> TRUE, hour |-> ParseNat(f[1]), minute |-> ParseNat(f[2]), second |-> 0]
       ELSE [ok |-> FALSE, hour |-> 0, minute |-> 0, second |-> 0]

\* cleaned_time_str, with the suffixes looked for in the text as written
CleanTimeCaseSensitive(t) == Strip(Remove(Remove(t, <<"a", "m">>), <<"p", "m">>))

\* cleaned_time_str
CleanTime(t) == Strip(Remove(Remove(Lower(t), <<"a", "m">>), <<"p", "m">>))

\* the afternoon adjustment with hour 0 taken into the shifted range
AdjustHourFromZero(hour, pm) == IF pm /\ 0 <= hour /\ hour <= 11 THEN hour + 12 ELSE hour

\* hour after the afternoon adjustment
AdjustHour(hour, pm) == IF pm /\ 1 <= hour /\ hour <= 11 THEN hour + 12 ELSE hour

\* datetime.strptime(s, '%Y%m%d %H:%M:%S') made timezone-aware, for an
\* eight-digit date
StrptimeFull(s) ==
    LET p == Split(s, " ")
        t == IF Len(p) = 2 THEN StrptimeHMS(p[2]) ELSE StrptimeHMS(<<>>)
    IN IF Len(p) = 2 /\ Len(p[1]) = 8 /\ (\A i \in 1..8 : IsDigit(p[1][i])) /\ t.ok
       THEN [ok |-> TRUE, date |-> p[1], hour |-> t.hour, minute |-> t.minute,
             second |-> t.second]
       ELSE NoTime

parse_time(t, date_str, pm) ==
    LET cleaned == CleanTime(t)
        hms == StrptimeHMS(cleaned)
        time_obj == IF hms.ok THEN hms ELSE StrptimeHM(cleaned)
        hour == AdjustHour(time_obj.hour, pm)
        full_datetime_str == date_str \o <<" ">> \o Format02d(hour) \o <<":">>
                             \o Format02d(time_obj.minute) \o <<":">>
                             \o Format02d(time_obj.second)
    IN IF time_obj.ok THEN StrptimeFull(full_datetime_str) ELSE NoTime

----------------------------------------------------------------------------
(* pandas.read_csv on the schedule file *)

\* texts pandas reads as a missing value (a subset of its default na_values)
NaTexts == {<<>>, <<"N", "A">>, <<"N", "/", "A">>, <<"n", "a", "n">>, <<"N", "a", "N">>}

IsNaText(c) == c \in NaTexts
IsIntText(c) == c # <<>> /\ \A i \in 1..Len(c) : IsDigit(c[i])

NaN == [kind |-> "nan", n |-> 0, text |-> <<>>]

\* dtype inferred for one column from all of its cells (before dropna):
\* integers only -> int64; integers and missing values -> float64; any other
\* text -> object
ColumnDtype(cells) ==
    IF \A i \in 1..Len(cells) : IsIntText(cells[i]) THEN "int64"
    ELSE IF \A i \in 1..Len(cells) : IsIntText(cells[i]) \/ IsNaText(cells[i]) THEN "float64"
    ELSE "object"

\* the value a cell holds in a column of the given dtype
CellValue(c, dtype) ==
    IF IsNaText(c) THEN NaN
    ELSE IF dtype = "int64" THEN [kind |-> "int", n |-> ParseNat(c), text |-> <<>>]
    ELSE IF dtype = "float64" THEN [kind |-> "float", n |-> ParseNat(c), text |-> <<>>]
    ELSE [kind |-> "str", n |-> 0, text |-> c]

\* pd.notna(v)
NotNa(v) == v.kind # "nan"

\* str(v)
Str(v) ==
    IF v.kind = "nan" THEN <<"n", "a", "n">>
    ELSE IF v.kind = "int" THEN FormatNat(v.n)
    ELSE IF v.kind = "float" THEN FormatNat(v.n) \o <<".", "0">>
    ELSE v.text

Column(rows, c) == [i \in 1..Len(rows) |-> rows[i][c]]

\* the frame of pd.read_csv(..., usecols=[0,1,2,3], names=[...])
ReadCsv(rows) ==
    [i \in 1..Len(rows) |->
        [time_str    |-> CellValue(rows[i][1], ColumnDtype(Column(rows, 1))),
         song_artist |-> CellValue(rows[i][2], ColumnDtype(Column(rows, 2))),
         score       |-> CellValue(rows[i][3], ColumnDtype(Column(rows, 3))),
         observation |-> CellValue(rows[i][4], ColumnDtype(Column(rows, 4)))]]

AllNa(r) ==
    ~NotNa(r.time_str) /\ ~NotNa(r.song_artist) /\ ~NotNa(r.score) /\ ~NotNa(r.observation)

\* df.dropna(how='all')
DropNaAll(df) == SelectSeq(df, LAMBDA r : ~AllNa(r))

----------------------------------------------------------------------------
(* load_music_schedule *)

\* a blank-able cell: str(v).strip() if pd.notna(v) else ""
CellText(v) == IF NotNa(v) THEN Strip(Str(v)) ELSE <<>>

\* 'afternoon' in data_folder_path.lower()
IsAfternoon(path) == Contains(Lower(path), <<"a", "f", "t", "e", "r", "n", "o", "o", "n">>)

\* the row loop leaving at the first row whose time fails to parse
RECURSIVE AllEventsUntilBadRow(_, _, _)
AllEventsUntilBadRow(df, date_str, pm) ==
    IF df = <<>> THEN <<>>
    ELSE LET row == Head(df)
             current_row_time == parse_time(Strip(Str(row.time_str)), date_str, pm)
         IN IF current_row_time.ok
            THEN <<[time  |-> current_row_time,
                    song  |-> IF NotNa(row.song_artist)
                              THEN Strip(Str(row.song_artist)) ELSE <<>>,
                    score |-> IF NotNa(row.score) THEN Strip(Str(row.score)) ELSE <<>>,
                    obs   |-> IF NotNa(row.observation)
                              THEN Strip(Str(row.observation)) ELSE <<>>]>>
                 \o AllEventsUntilBadRow(Tail(df), date_str, pm)
            ELSE <<>>

\* the row loop: one event per row whose time parses; a failing row is skipped
RECURSIVE AllEvents(_, _, _)
AllEvents(df, date_str, pm) ==
    IF df = <<>> THEN <<>>
    ELSE LET row == Head(df)
             current_row_time == parse_time(Strip(Str(row.time_str)), date_str, pm)
         IN IF current_row_time.ok
            THEN <<[time  |-> current_row_time,
                    song  |-> CellText(row.song_artist),
                    score |-> CellText(row.score),
                    obs   |-> CellText(row.observation)]>>
                 \o AllEvents(Tail(df), date_str, pm)
            ELSE AllEvents(Tail(df), date_str, pm)

MusicEnd == <<"m", "u", "s", "i", "c", " ", "e", "n", "d">>

\* the start/end loop without its break: the last 'music end' row wins
RECURSIVE ScanWindowNoBreak(_, _, _)
ScanWindowNoBreak(events, i, start) ==
    IF i > Len(events) THEN [music_start |-> start, music_end |-> NoTime]
    ELSE LET event == events[i]
             start2 == IF event.song # <<>> /\ ~start.ok THEN event.time ELSE start
             rest == ScanWindowNoBreak(events, i + 1, start2)
         IN IF Contains(Lower(event.obs), <<"m", "u", "s", "i", "c", " ", "e", "n", "d">>)
               /\ ~rest.music_end.ok
            THEN [music_start |-> rest.music_start, music_end |-> event.time]
            ELSE rest

\* the start/end loop from event i on, start being first_song_start_time so
\* far; it stops at the first 'music end' observation
RECURSIVE ScanWindow(_, _, _)
ScanWindow(events, i, start) ==
    IF i > Len(events) THEN [music_start |-> start, music_end |-> NoTime]
    ELSE LET event == events[i]
             start2 == IF event.song # <<>> /\ ~start.ok THEN event.time ELSE start
         IN IF Contains(Lower(event.obs), MusicEnd)
            THEN [music_start |-> start2, music_end |-> event.time]
            ELSE ScanWindow(events, i + 1, start2)

ScoreOpen == <<"(", "S", "c", "o", "r", "e", ":", " ">>

\* combined_text with every part joined, the empty ones too
AnnotationTextAllParts(event) ==
    Join(<<event.song, ScoreOpen \o event.score \o <<")">>, event.obs>>, <<"\n">>)

\* combined_text of one event
AnnotationText(event) ==
    LET text_parts ==
            (IF event.song # <<>> THEN <<event.song>> ELSE <<>>)
            \o (IF event.score # <<>> THEN <<ScoreOpen \o event.score \o <<")">>>> ELSE <<>>)
            \o (IF event.obs # <<>> THEN <<event.obs>> ELSE <<>>)
    IN Join(text_parts, <<"\n">>)

\* Python None as a schedule result
NoSchedule ==
    [some |-> FALSE, annotations |-> <<>>, music_start |-> NoTime, music_end |-> NoTime]

load_music_schedule(file, date_str, data_folder_path) ==
    IF ~file.exists THEN NoSchedule
    ELSE LET df_schedule == DropNaAll(ReadCsv(file.rows))
             all_events == AllEvents(df_schedule, date_str, IsAfternoon(data_folder_path))
             window == ScanWindow(all_events, 1, NoTime)
             final_end_time == IF window.music_end.ok THEN window.music_end
                               ELSE all_events[Len(all_events)].time
         IN IF df_schedule = <<>> \/ all_events = <<>> THEN NoSchedule
            ELSE [some |-> TRUE,
                  annotations |-> [k \in 1..Len(all_events) |->
                                      [time |-> all_events[k].time,
                                       text |-> AnnotationText(all_events[k])]],
                  music_start |-> window.music_start,
                  music_end |-> final_end_time]

----------------------------------------------------------------------------
(* plot_and_save_signal *)

\* an instant of the experiment date as seconds after local midnight
SecondsOfDay(t) == t.hour * 3600 + t.minute * 60 + t.second

RECURSIVE SeqMin(_)
SeqMin(q) ==
    IF Len(q) = 1 THEN q[1]
    ELSE LET m == SeqMin(Tail(q)) IN IF q[1] <= m THEN q[1] ELSE m

RECURSIVE SeqMax(_)
SeqMax(q) ==
    IF Len(q) = 1 THEN q[1]
    ELSE LET m == SeqMax(Tail(q)) IN IF q[1] >= m THEN q[1] ELSE m

\* y_level_start and y_level_step, in hundredths of the axes height
YLevelStart == -15
YLevelStep == -8

\* the annotation loop with the stagger level going up on every list entry
RECURSIVE PlaceAnnotationsByIndex(_, _, _, _, _)
PlaceAnnotationsByIndex(annotations, i, min_time_data, max_time_data, stagger_level) ==
    IF i > Len(annotations) THEN <<>>
    ELSE LET time_point == SecondsOfDay(annotations[i].time)
         IN IF ~(min_time_data <= time_point /\ time_point <= max_time_data)
            THEN PlaceAnnotationsByIndex(annotations, i + 1, min_time_data, max_time_data,
                                         stagger_level + 1)
            ELSE <<[time |-> annotations[i].time,
                    text |-> annotations[i].text,
                    y    |-> YLevelStart + stagger_level * YLevelStep]>>
                 \o PlaceAnnotationsByIndex(annotations, i + 1, min_time_data,
                                            max_time_data, stagger_level + 1)

\* the annotation loop from list position i on: an annotation outside
\* [min_time_data, max_time_data] is passed over, every other one is drawn at
\* the current stagger level, which then goes up by one
RECURSIVE PlaceAnnotations(_, _, _, _, _)
PlaceAnnotations(annotations, i, min_time_data, max_time_data, stagger_level) ==
    IF i > Len(annotations) THEN <<>>
    ELSE LET time_point == SecondsOfDay(annotations[i].time)
         IN IF ~(min_time_data <= time_point /\ time_point <= max_time_data)
            THEN PlaceAnnotations(annotations, i + 1, min_time_data, max_time_data,
                                  stagger_level)
            ELSE <<[time |-> annotations[i].time,
                    text |-> annotations[i].text,
                    y    |-> YLevelStart + stagger_level * YLevelStep]>>
                 \o PlaceAnnotations(annotations, i + 1, min_time_data, max_time_data,
                                     stagger_level + 1)

\* the charts one call writes (none for an empty series)
plot_and_save_signal(folder, signal_name, df, sd) ==
    IF df = <<>> THEN <<>>
    ELSE LET annotations == IF sd.some THEN sd.annotations ELSE <<>>
             music_start == IF sd.some THEN sd.music_start ELSE NoTime
             music_end == IF sd.some THEN sd.music_end ELSE NoTime
         IN <<[folder |-> folder,
               signal |-> signal_name,
               xlim   |-> <<SeqMin(df), SeqMax(df)>>,
               band   |-> IF music_start.ok /\ music_end.ok
                          THEN <<music_start, music_end>> ELSE <<>>,
               placed |-> PlaceAnnotations(annotations, 1, SeqMin(df), SeqMax(df), 0)]>>

----------------------------------------------------------------------------
(* load_emotibit_data *)

SIGNALS_TO_PLOT ==
    <<"AX", "AY", "AZ", "GX", "GY", "GZ", "EA", "EL", "SF", "SA", "SR", "T1", "TH",
      "PI", "PR", "PG", "BI", "HR">>

\* experiment_date_str: the date of the first filename that starts with one
DateOf(files, date_str) ==
    IF \E i \in 1..Len(files) : files[i].dated
    THEN [some |-> TRUE, date |-> date_str] ELSE [some |-> FALSE, date |-> <<>>]

\* the channel loop: one series per catalog code that has a file with a
\* LocalTimestamp column and a value column, in catalog order
RECURSIVE LoadSignals(_, _)
LoadSignals(files, k) ==
    IF k > Len(SIGNALS_TO_PLOT) THEN <<>>
    ELSE LET signal_type == SIGNALS_TO_PLOT[k]
             found_files == SelectSeq(files, LAMBDA f : f.signal = signal_type)
         IN IF found_files # <<>> /\ found_files[1].readable
            THEN <<[signal |-> signal_type, est_time |-> found_files[1].est_time]>>
                 \o LoadSignals(files, k + 1)
            ELSE LoadSignals(files, k + 1)

\* returns (dataframes, experiment_date_str)
load_emotibit_data(files, date_str) ==
    LET d == DateOf(files, date_str)
    IN IF files = <<>> \/ ~d.some
       THEN [dataframes |-> <<>>, date |-> d]
       ELSE [dataframes |-> LoadSignals(files, 1), date |-> d]

----------------------------------------------------------------------------
(* Inputs of the time parser *)

\* experiment_date_str: the filename date with its dashes removed
ExperimentDate == <<"2", "0", "2", "4", "0", "1", "1", "5">>

Colon == <<":">>
HMText(h, m) == Format02d(h) \o Colon \o Format02d(m)
HMSText(h, m, s) == Format02d(h) \o Colon \o Format02d(m) \o Colon \o Format02d(s)

SampleMinutes == {0, 59}
SampleSeconds == {7, 30}

\* every hour of the day, written HH:MM and HH:MM:SS
ClockTexts ==
    {HMText(h, m) : h \in 0..23, m \in SampleMinutes}
    \cup {HMSText(h, 5, s) : h \in 0..23, s \in SampleSeconds}

\* valid texts that get a suffix: two-digit and one-digit fields, midnight, noon
SuffixBases ==
    {HMText(9, 0), HMText(12, 30), HMText(0, 15), HMSText(10, 15, 30),
     HMSText(23, 59, 59), <<"9", ":", "5">>, <<"1", ":", "2", ":", "3">>}

\* texts no format accepts
BadTimeTexts ==
    {<<>>, <<"n", "a", "n">>, <<"2", "4", ":", "0", "0">>, <<"1", "2", ":", "6", "0">>,
     <<"1", "0", ":", "1", "5", ":", "6", "0">>, <<"0", "9", ".", "0", "0">>,
     <<"0", "9", ":", " ", "0", "0">>, <<"1", ":", "2", ":", "3", ":", "4">>,
     <<"1", "2", "3", ":", "4">>, <<"0", "9", ":", "0", "0", " ", "a", " ", "m">>}

\* am and pm in every letter case
Suffixes ==
    {<<"a", "m">>, <<"A", "M">>, <<"A", "m">>, <<"a", "M">>,
     <<"p", "m">>, <<"P", "M">>, <<"P", "m">>, <<"p", "M">>}

\* no whitespace, runs of one to MaxPad spaces, a tab, a tab and a space
Pads == {[i \in 1..k |-> " "] : k \in 0..MaxPad} \cup {<<"\t">>, <<"\t", " ">>}

Suffixed(b, gap, sfx, trail) == b \o gap \o sfx \o trail

SuffixedTexts ==
    {Suffixed(b, gap, sfx, trail) : b \in SuffixBases, gap \in Pads, sfx \in Suffixes,
                                    trail \in Pads}

TimeTexts == ClockTexts \cup SuffixBases \cup SuffixedTexts \cup BadTimeTexts

----------------------------------------------------------------------------
(* SpecParse: parse_time applied to one time text *)

InitParse ==
    /\ pc = "call_parse"
    /\ time_str \in TimeTexts
    /\ is_pm \in BOOLEAN
    /\ parsed = NoTime
    /\ sched_file = [exists |-> FALSE, rows |-> <<>>]
    /\ folder_name = <<>>
    /\ schedule_data = NoSchedule
    /\ emotibit_data = <<>>
    /\ sig_i = 0
    /\ charts = <<>>
    /\ subfolders = <<>>
    /\ folder_i = 0
    /\ visited = {}

CallParseTime ==
    /\ pc = "call_parse"
    /\ parsed' = parse_time(time_str, ExperimentDate, is_pm)
    /\ pc' = "parse_returned"
    /\ UNCHANGED <<time_str, is_pm, sched_file, folder_name, schedule_data, emotibit_data,
                   sig_i, charts, subfolders, folder_i, visited>>

NextParse == CallParseTime

SpecParse == InitParse /\ [][NextParse]_vars

\* C8: for every hour h in 0..23 the returned hour is h+12 when the session
\* is an afternoon one and 1 <= h <= 11, and h otherwise; minute and second
\* are returned unchanged and the returned hour is always in 0..23.
C8_AfternoonHourRule ==
    pc = "parse_returned" =>
        \A h \in 0..23 :
            LET want == IF is_pm /\ 1 <= h /\ h <= 11 THEN h + 12 ELSE h
            IN /\ \A m \in SampleMinutes :
                    time_str = HMText(h, m) =>
                        /\ parsed.ok
                        /\ parsed.hour = want /\ parsed.hour \in 0..23
                        /\ parsed.minute = m /\ parsed.second = 0
               /\ \A s \in SampleSeconds :
                    time_str = HMSText(h, 5, s) =>
                        /\ parsed.ok
                        /\ parsed.hour = want /\ parsed.hour \in 0..23
                        /\ parsed.minute = 5 /\ parsed.second = s

C8_Witness ==
    /\ pc = "parse_returned" /\ is_pm
    /\ time_str = HMSText(11, 5, 30)
    /\ parsed.ok /\ parsed.hour = 23 /\ parsed.minute = 5 /\ parsed.second = 30

\* the hour as written in a valid time text
WrittenHour(b) == ParseNat(Split(b, ":")[1])

\* C9: a valid time text followed by an am/pm suffix in any letter case, with
\* any whitespace before or after the suffix, parses to the same instant as
\* the suffix-free text under the same date and afternoon flag.
C9_SuffixOnlyStripped ==
    pc = "parse_returned" =>
        \A b \in SuffixBases, gap \in Pads, sfx \in Suffixes, trail \in Pads :
            time_str = Suffixed(b, gap, sfx, trail) =>
                /\ parsed.ok
                /\ parsed = parse_time(b, ExperimentDate, is_pm)
                /\ parsed.hour = (IF is_pm /\ WrittenHour(b) \in 1..11
                                  THEN WrittenHour(b) + 12 ELSE WrittenHour(b))

C9_Witness ==
    /\ pc = "parse_returned" /\ ~is_pm
    /\ time_str = Suffixed(HMText(9, 0), <<" ", " ">>, <<"P", "M">>, <<" ">>)
    /\ parsed.ok /\ parsed.hour = 9 /\ parsed.minute = 0

----------------------------------------------------------------------------
(* Inputs of the schedule loader: rows of raw cell text (time, label, score,
   observation) *)

\* the three rows of the end-to-end scenario
RowSongA ==
    <<<<"0", "9", ":", "0", "0">>,
      <<"S", "o", "n", "g", "A">>,
      <<"8">>,
      <<>>>>

RowSongB ==
    <<<<"0", "9", ":", "0", "5">>,
      <<"S", "o", "n", "g", "B">>,
      <<"9">>,
      <<>>>>

RowMusicEnd ==
    <<<<"0", "9", ":", "1", "0">>,
      <<>>,
      <<>>,
      <<"M", "u", "s", "i", "c", " ", "e", "n", "d">>>>

\* an out-of-range time on a row that has a label and the end marker
RowBadTime ==
    <<<<"2", "5", ":", "0", "0">>,
      <<"S", "o", "n", "g", "C">>,
      <<"7">>,
      <<"m", "u", "s", "i", "c", " ", "e", "n", "d">>>>

\* a blank time cell on a row that is not blank
RowNoTime ==
    <<<<>>,
      <<"S", "o", "n", "g", "D">>,
      <<>>,
      <<>>>>

\* whitespace label, non-numeric score, the end marker inside other text
RowLateNote ==
    <<<<"1", ":", "3", "0", " ", "P", "M">>,
      <<" ">>,
      <<"o", "k">>,
      <<"t", "h", "e", " ", "M", "U", "S", "I", "C", " ", "E", "N", "D">>>>

\* a parsed row with no text at all
RowBare ==
    <<<<"1", "0", ":", "1", "5", ":", "3", "0">>,
      <<"N", "/", "A">>,
      <<>>,
      <<>>>>

\* an entirely blank row
RowBlank ==
    <<<<>>,
      <<>>,
      <<>>,
      <<>>>>

RowLabelObs ==
    <<<<"0", "9", ":", "2", "0">>,
      <<"S", "o", "n", "g", "A">>,
      <<>>,
      <<"c", "a", "l", "m">>>>

RowAll ==
    <<<<"0", "9", ":", "4", "0">>,
      <<"S", "o", "n", "g", "B">>,
      <<"1", "0">>,
      <<"c", "a", "l", "m">>>>

RowScore ==
    <<<<"0", "9", ":", "5", "0">>,
      <<>>,
      <<"9">>,
      <<>>>>

RowLabel ==
    <<<<"0", "8", ":", "5", "5">>,
      <<"S", "o", "n", "g", "E">>,
      <<>>,
      <<>>>>

ScheduleRows ==
    {RowSongA, RowSongB, RowMusicEnd, RowBadTime,
     RowNoTime, RowLateNote, RowBare, RowBlank,
     RowLabelObs, RowAll, RowScore, RowLabel}

ScheduleFiles ==
    {[exists |-> FALSE, rows |-> <<>>]}
    \cup {[exists |-> TRUE, rows |-> r] : r \in UNION {[1..n -> ScheduleRows] : n \in 0..MaxRows}}

MorningFolder == <<"P", "0", "1", " ", "M", "o", "r", "n", "i", "n", "g">>
AfternoonFolder == <<"P", "0", "1", "_", "A", "f", "t", "e", "r", "N", "o", "o", "n">>
FolderNames == {MorningFolder, AfternoonFolder}

----------------------------------------------------------------------------
(* SpecSchedule: load_music_schedule applied to one schedule file *)

InitSchedule ==
    /\ pc = "call_load"
    /\ sched_file \in ScheduleFiles
    /\ folder_name \in FolderNames
    /\ schedule_data = NoSchedule
    /\ time_str = <<>>
    /\ is_pm = FALSE
    /\ parsed = NoTime
    /\ emotibit_data = <<>>
    /\ sig_i = 0
    /\ charts = <<>>
    /\ subfolders = <<>>
    /\ folder_i = 0
    /\ visited = {}

CallLoadMusicSchedule ==
    /\ pc = "call_load"
    /\ schedule_data' = load_music_schedule(sched_file, ExperimentDate, folder_name)
    /\ pc' = "load_returned"
    /\ UNCHANGED <<time_str, is_pm, parsed, sched_file, folder_name, emotibit_data,
                   sig_i, charts, subfolders, folder_i, visited>>

NextSchedule == CallLoadMusicSchedule

SpecSchedule == InitSchedule /\ [][NextSchedule]_vars

----------------------------------------------------------------------------
(* Properties of load_music_schedule *)

\* the instant h:m:s of the experiment date
At(h, m, s) == [ok |-> TRUE, date |-> ExperimentDate, hour |-> h, minute |-> m, second |-> s]

\* the non-blank rows of the file, and of those the rows whose time parses
NonBlankRows == DropNaAll(ReadCsv(sched_file.rows))
InstantOf(r) == parse_time(Strip(Str(r.time_str)), ExperimentDate, IsAfternoon(folder_name))
ParsedRows == SelectSeq(NonBlankRows, LAMBDA r : InstantOf(r).ok)
LabelOf(r) == CellText(r.song_artist)
ScoreOf(r) == CellText(r.score)
ObsOf(r) == CellText(r.observation)
HasEndMarker(r) == Contains(Lower(ObsOf(r)), MusicEnd)

Returned == pc = "load_returned" /\ schedule_data.some

\* C3: music_start is the instant of the first parsed row (file order) whose
\* label is non-empty, wherever the 'music end' row lies; it is absent exactly
\* when no parsed row has a non-empty label.
C3_StartIsFirstLabelledRow ==
    Returned =>
        LET rows == ParsedRows
            labelled == {k \in 1..Len(rows) : LabelOf(rows[k]) # <<>>}
        IN IF labelled = {} THEN ~schedule_data.music_start.ok
           ELSE LET first == CHOOSE k \in labelled : \A j \in labelled : k <= j
                IN schedule_data.music_start = InstantOf(rows[first])

\* C4: music_end is the instant of the first parsed row (file order) whose
\* observation contains 'music end' in any letter case, and the instant of the
\* last parsed row when there is none; it is never absent in a returned result.
C4_EndIsFirstMarkerOrLastRow ==
    Returned =>
        LET rows == ParsedRows
            marked == {k \in 1..Len(rows) : HasEndMarker(rows[k])}
        IN /\ schedule_data.music_end.ok
           /\ IF marked = {}
              THEN schedule_data.music_end = InstantOf(rows[Len(rows)])
              ELSE LET first == CHOOSE k \in marked : \A j \in marked : k <= j
                   IN schedule_data.music_end = InstantOf(rows[first])

C4_Witness ==
    /\ Returned
    /\ sched_file.rows = <<RowBadTime, RowMusicEnd, RowLateNote>>
    /\ folder_name = AfternoonFolder
    /\ schedule_data.music_end = At(21, 10, 0)

\* C5: the file with rows (09:00, SongA, 8, blank), (09:05, SongB, 9, blank),
\* (09:10, blank, blank, 'Music end') in a non-afternoon session yields
\* music_start 09:00:00, music_end 09:10:00 and exactly three annotations
\* whose texts are 'SongA\n(Score: 8)', 'SongB\n(Score: 9)' and 'Music end'.
C5_EndToEndScenario ==
    (/\ pc = "load_returned"
     /\ sched_file = [exists |-> TRUE, rows |-> <<RowSongA, RowSongB, RowMusicEnd>>]
     /\ folder_name = MorningFolder)
    => /\ schedule_data.some
       /\ schedule_data.music_start = At(9, 0, 0)
       /\ schedule_data.music_end = At(9, 10, 0)
       /\ Len(schedule_data.annotations) = 3
       /\ schedule_data.annotations[1].text = <<"S", "o", "n", "g", "A", "\n", "(", "S", "c", "o", "r", "e", ":", " ", "8", ")">>
       /\ schedule_data.annotations[2].text = <<"S", "o", "n", "g", "B", "\n", "(", "S", "c", "o", "r", "e", ":", " ", "9", ")">>
       /\ schedule_data.annotations[3].text = <<"M", "u", "s", "i", "c", " ", "e", "n", "d">>

\* C6: a row whose time fails to parse is skipped without stopping the scan:
\* the annotation list has exactly one annotation per row whose time parses,
\* in file order, carrying that row's instant; for a readable file the
\* 'no schedule' result is returned only when no row parses.
C6_OneAnnotationPerParsedRow ==
    pc = "load_returned" =>
        LET rows == ParsedRows
        IN /\ schedule_data.some =>
                 /\ Len(schedule_data.annotations) = Len(rows)
                 /\ \A k \in 1..Len(rows) :
                       schedule_data.annotations[k].time = InstantOf(rows[k])
           /\ sched_file.exists => (schedule_data.some <=> rows # <<>>)

C6_Witness ==
    /\ Returned
    /\ sched_file.rows = <<RowBadTime, RowSongA, RowNoTime, RowSongB>>
          \/ sched_file.rows = <<RowSongA, RowBadTime, RowSongB>>
    /\ Len(schedule_data.annotations) = 2
    /\ schedule_data.annotations[1].time.minute = 0
    /\ schedule_data.annotations[2].time.minute = 5

NewLine == <<"\n">>

\* the text the three fields of a row are to give
ComposedText(label, score, obs) ==
    LET sc == ScoreOpen \o score \o <<")">>
    IN CASE label # <<>> /\ score # <<>> /\ obs # <<>> ->
                label \o NewLine \o sc \o NewLine \o obs
         [] label # <<>> /\ score # <<>> /\ obs = <<>> -> label \o NewLine \o sc
         [] label # <<>> /\ score = <<>> /\ obs # <<>> -> label \o NewLine \o obs
         [] label # <<>> /\ score = <<>> /\ obs = <<>> -> label
         [] label = <<>> /\ score # <<>> /\ obs # <<>> -> sc \o NewLine \o obs
         [] label = <<>> /\ score # <<>> /\ obs = <<>> -> sc
         [] label = <<>> /\ score = <<>> /\ obs # <<>> -> obs
         [] OTHER -> <<>>

\* C7: the annotation text of a parsed row is the non-empty parts among label,
\* '(Score: <score>)' and observation joined by single newlines in that order;
\* it never begins or ends with a newline, never holds an empty line, and is
\* empty when all three fields are empty.
C7_TextJoinsNonEmptyParts ==
    Returned =>
        LET rows == ParsedRows
        IN \A k \in 1..Len(schedule_data.annotations) :
            LET t == schedule_data.annotations[k].text
                r == rows[k]
            IN /\ k <= Len(rows)
               /\ t = ComposedText(LabelOf(r), ScoreOf(r), ObsOf(r))
               /\ t # <<>> => t[1] # "\n" /\ t[Len(t)] # "\n"
               /\ \A i \in 1..(Len(t) - 1) : ~(t[i] = "\n" /\ t[i + 1] = "\n")
               /\ (LabelOf(r) = <<>> /\ ScoreOf(r) = <<>> /\ ObsOf(r) = <<>>) => t = <<>>

C7_Witness ==
    /\ Returned
    /\ sched_file.rows = <<RowLabelObs, RowBare, RowLateNote>>
    /\ schedule_data.annotations[1].text = <<"S", "o", "n", "g", "A", "\n", "c", "a", "l", "m">>
    /\ schedule_data.annotations[2].text = <<>>
    /\ schedule_data.annotations[3].text =
          <<"(", "S", "c", "o", "r", "e", ":", " ", "o", "k", ")", "\n", "t", "h", "e", " ", "M", "U", "S", "I", "C", " ", "E", "N", "D">>

----------------------------------------------------------------------------
(* process_folder and the batch loop of __main__ *)

Folder == subfolders[folder_i]

\* the script found no session folder
MainNoFolders ==
    /\ pc = "main"
    /\ subfolders = <<>>
    /\ pc' = "exit"
    /\ UNCHANGED <<time_str, is_pm, parsed, sched_file, folder_name, schedule_data,
                   emotibit_data, sig_i, charts, subfolders, folder_i, visited>>

\* the for loop over subfolders starts
MainStartLoop ==
    /\ pc = "main"
    /\ subfolders # <<>>
    /\ folder_i' = 1
    /\ pc' = "call"
    /\ UNCHANGED <<time_str, is_pm, parsed, sched_file, folder_name, schedule_data,
                   emotibit_data, sig_i, charts, subfolders, visited>>

\* process_folder, first lines: glob(...)[0] on a folder without a schedule
\* file raises IndexError; nothing catches it, so the script ends there
GlobScheduleRaises ==
    /\ pc = "call"
    /\ folder_i <= Len(subfolders)
    /\ ~Folder.schedule.exists
    /\ visited' = visited \cup {folder_i}
    /\ pc' = "crashed"
    /\ UNCHANGED <<time_str, is_pm, parsed, sched_file, folder_name, schedule_data,
                   emotibit_data, sig_i, charts, subfolders, folder_i>>

\* process_folder, first lines, with a schedule file: the two existence
\* checks pass and the output folder is made
EnterFolder ==
    /\ pc = "call"
    /\ folder_i <= Len(subfolders)
    /\ Folder.schedule.exists
    /\ visited' = visited \cup {folder_i}
    /\ sched_file' = Folder.schedule
    /\ folder_name' = Folder.name
    /\ pc' = "entered"
    /\ UNCHANGED <<time_str, is_pm, parsed, schedule_data, emotibit_data, sig_i, charts,
                   subfolders, folder_i>>

\* load_emotibit_data found no date: process_folder returns
LoadEmotibitNoDate ==
    /\ pc = "entered"
    /\ ~load_emotibit_data(Folder.files, ExperimentDate).date.some
    /\ emotibit_data' = <<>>
    /\ folder_i' = folder_i + 1
    /\ pc' = "call"
    /\ UNCHANGED <<time_str, is_pm, parsed, sched_file, folder_name, schedule_data, sig_i,
                   charts, subfolders, visited>>

\* load_emotibit_data returned a date and the loaded channels
LoadEmotibitData ==
    /\ pc = "entered"
    /\ load_emotibit_data(Folder.files, ExperimentDate).date.some
    /\ emotibit_data' = load_emotibit_data(Folder.files, ExperimentDate).dataframes
    /\ pc' = "dated"
    /\ UNCHANGED <<time_str, is_pm, parsed, sched_file, folder_name, schedule_data, sig_i,
                   charts, subfolders, folder_i, visited>>

LoadMusicSchedule ==
    /\ pc = "dated"
    /\ schedule_data' =
          load_music_schedule(sched_file,
                              load_emotibit_data(Folder.files, ExperimentDate).date.date,
                              folder_name)
    /\ pc' = "loaded"
    /\ UNCHANGED <<time_str, is_pm, parsed, sched_file, folder_name, emotibit_data, sig_i,
                   charts, subfolders, folder_i, visited>>

\* no channel was loaded: process_folder returns
NoDataLoaded ==
    /\ pc = "loaded"
    /\ emotibit_data = <<>>
    /\ folder_i' = folder_i + 1
    /\ pc' = "call"
    /\ UNCHANGED <<time_str, is_pm, parsed, sched_file, folder_name, schedule_data,
                   emotibit_data, sig_i, charts, subfolders, visited>>

StartPlots ==
    /\ pc = "loaded"
    /\ emotibit_data # <<>>
    /\ sig_i' = 1
    /\ pc' = "plotting"
    /\ UNCHANGED <<time_str, is_pm, parsed, sched_file, folder_name, schedule_data,
                   emotibit_data, charts, subfolders, folder_i, visited>>

\* one turn of the loop over emotibit_data.items()
PlotAndSaveSignal ==
    /\ pc = "plotting"
    /\ sig_i <= Len(emotibit_data)
    /\ charts' = charts \o plot_and_save_signal(folder_i, emotibit_data[sig_i].signal,
                                                emotibit_data[sig_i].est_time, schedule_data)
    /\ sig_i' = sig_i + 1
    /\ UNCHANGED <<pc, time_str, is_pm, parsed, sched_file, folder_name, schedule_data,
                   emotibit_data, subfolders, folder_i, visited>>

\* every channel is plotted: process_folder returns
FinishFolder ==
    /\ pc = "plotting"
    /\ sig_i > Len(emotibit_data)
    /\ folder_i' = folder_i + 1
    /\ pc' = "call"
    /\ UNCHANGED <<time_str, is_pm, parsed, sched_file, folder_name, schedule_data,
                   emotibit_data, sig_i, charts, subfolders, visited>>

\* the loop is over: 'Batch processing complete.'
BatchComplete ==
    /\ pc = "call"
    /\ folder_i > Len(subfolders)
    /\ pc' = "complete"
    /\ UNCHANGED <<time_str, is_pm, parsed, sched_file, folder_name, schedule_data,
                   emotibit_data, sig_i, charts, subfolders, folder_i, visited>>

----------------------------------------------------------------------------
(* Inputs of the batch: CSV files of a session folder (the schedule file
   aside, whose name starts with no date) and session folders *)

Clock(h, m) == h * 3600 + m * 60

HeartRateFile ==
    [dated |-> TRUE, signal |-> "HR", readable |-> TRUE,
     est_time |-> <<Clock(9, 0), Clock(9, 5), Clock(9, 10)>>]
SkinFile ==
    [dated |-> TRUE, signal |-> "EA", readable |-> TRUE,
     est_time |-> <<Clock(9, 5), Clock(9, 6)>>]
\* a channel file with a header and no data row
HeaderOnlyFile == [dated |-> TRUE, signal |-> "T1", readable |-> TRUE, est_time |-> <<>>]
\* a channel file whose name starts with no date
UndatedFile ==
    [dated |-> FALSE, signal |-> "HR", readable |-> TRUE,
     est_time |-> <<Clock(9, 0), Clock(9, 10)>>]
\* a channel file without a LocalTimestamp column
NoTimestampFile == [dated |-> TRUE, signal |-> "GX", readable |-> FALSE, est_time |-> <<>>]

ScenarioSchedule == [exists |-> TRUE, rows |-> <<RowSongA, RowSongB, RowMusicEnd>>]
AbsentSchedule == [exists |-> FALSE, rows |-> <<>>]

CompleteFolder ==
    [name |-> MorningFolder, schedule |-> ScenarioSchedule,
     files |-> <<HeartRateFile, SkinFile, NoTimestampFile>>]
NoScheduleFolder ==
    [name |-> MorningFolder, schedule |-> AbsentSchedule,
     files |-> <<HeartRateFile, SkinFile>>]
NoDateFolder ==
    [name |-> AfternoonFolder, schedule |-> ScenarioSchedule, files |-> <<UndatedFile>>]
NoChannelFolder ==
    [name |-> MorningFolder, schedule |-> ScenarioSchedule, files |-> <<NoTimestampFile>>]
HeaderOnlyScheduleFolder ==
    [name |-> AfternoonFolder, schedule |-> [exists |-> TRUE, rows |-> <<>>],
     files |-> <<SkinFile, HeaderOnlyFile>>]

SessionFolders ==
    {CompleteFolder, NoScheduleFolder, NoDateFolder, NoChannelFolder,
     HeaderOnlyScheduleFolder}

----------------------------------------------------------------------------
(* Spec: the whole script *)

Init ==
    /\ pc = "main"
    /\ subfolders \in UNION {[1..n -> SessionFolders] : n \in 0..MaxFolders}
    /\ folder_i = 0
    /\ visited = {}
    /\ time_str = <<>>
    /\ is_pm = FALSE
    /\ parsed = NoTime
    /\ sched_file = AbsentSchedule
    /\ folder_name = <<>>
    /\ schedule_data = NoSchedule
    /\ emotibit_data = <<>>
    /\ sig_i = 0
    /\ charts = <<>>

Next ==
    \/ MainNoFolders
    \/ MainStartLoop
    \/ GlobScheduleRaises
    \/ EnterFolder
    \/ LoadEmotibitNoDate
    \/ LoadEmotibitData
    \/ LoadMusicSchedule
    \/ NoDataLoaded
    \/ StartPlots
    \/ PlotAndSaveSignal
    \/ FinishFolder
    \/ BatchComplete

Spec == Init /\ [][Next]_vars

\* process_folder has been called on folder i and is no longer running for it
FolderOver(i) == i \in visited /\ (folder_i > i \/ pc \in {"crashed", "complete"})

HasDate(f) == load_emotibit_data(f.files, ExperimentDate).date.some
LoadedChannels(f) == load_emotibit_data(f.files, ExperimentDate).dataframes
ChartsOf(i) == SelectSeq(charts, LAMBDA c : c.folder = i)

\* C1: a session-level failure (no schedule file, or no filename with a valid
\* date) aborts only that session: the loop goes on to the folders after it
\* and the batch reaches its 'Batch processing complete' end.
C1_SessionFailureKeepsBatchRunning ==
    \A i \in 1..Len(subfolders) :
        (FolderOver(i) /\ (~subfolders[i].schedule.exists \/ ~HasDate(subfolders[i])))
        => /\ pc # "crashed"
           /\ folder_i > i
           /\ pc = "complete" => visited = 1..Len(subfolders)

\* C2: a session folder with loadable channel files and a valid filename date
\* but no schedule file still gets one chart per loaded channel, each with no
\* annotation and no shaded band.
C2_NoScheduleStillRendersCharts ==
    \A i \in 1..Len(subfolders) :
        (/\ FolderOver(i)
         /\ ~subfolders[i].schedule.exists
         /\ HasDate(subfolders[i])
         /\ LoadedChannels(subfolders[i]) # <<>>)
        => /\ Len(ChartsOf(i)) = Len(LoadedChannels(subfolders[i]))
           /\ \A k \in 1..Len(ChartsOf(i)) :
                 /\ ChartsOf(i)[k].signal = LoadedChannels(subfolders[i])[k].signal
                 /\ ChartsOf(i)[k].placed = <<>>
                 /\ ChartsOf(i)[k].band = <<>>

----------------------------------------------------------------------------
(* SpecRender: the plot loop of process_folder over one session's channels
   and schedule *)

RenderRows == {RowSongA, RowSongB, RowMusicEnd, RowLabel}

\* schedule results load_music_schedule returns for files of RenderRows
RenderSchedules ==
    {load_music_schedule([exists |-> TRUE, rows |-> r], ExperimentDate, MorningFolder) :
        r \in UNION {[1..n -> RenderRows] : n \in 0..MaxAnnotations}}

RenderFiles == {HeartRateFile, SkinFile, HeaderOnlyFile}

\* channel dicts load_emotibit_data returns for folders of RenderFiles
RenderChannels ==
    {LoadSignals(f, 1) : f \in {g \in UNION {[1..n -> RenderFiles] : n \in 1..3} :
                                   \A a, b \in DOMAIN g : a # b => g[a] # g[b]}}

InitRender ==
    /\ pc = "plotting"
    /\ schedule_data \in RenderSchedules
    /\ emotibit_data \in RenderChannels
    /\ sig_i = 1
    /\ charts = <<>>
    /\ subfolders = <<>>
    /\ folder_i = 0
    /\ visited = {}
    /\ time_str = <<>>
    /\ is_pm = FALSE
    /\ parsed = NoTime
    /\ sched_file = AbsentSchedule
    /\ folder_name = <<>>

NextRender == PlotAndSaveSignal

SpecRender == InitRender /\ [][NextRender]_vars

\* the channel of the current session a chart was drawn for
ChannelOf(c) ==
    emotibit_data[CHOOSE j \in 1..Len(emotibit_data) : emotibit_data[j].signal = c.signal]

\* C10: the annotations placed on a channel's chart are exactly the
\* subsequence of the session's annotation list whose instants lie within the
\* channel's [min instant, max instant] (ends included), in list order; the
\* k-th placed one is drawn k fixed steps below the first, so a dropped
\* annotation uses no stagger level; and every chart, also of a channel drawn
\* later, is taken from the same unchanged annotation list.
C10_PlacedAreInRangeInListOrder ==
    pc = "plotting" =>
        \A j \in 1..Len(charts) :
            LET c == charts[j]
                times == ChannelOf(c).est_time
                shown == SelectSeq(IF schedule_data.some THEN schedule_data.annotations
                                   ELSE <<>>,
                                   LAMBDA a : \E lo, hi \in {times[x] : x \in DOMAIN times} :
                                                 /\ lo <= SecondsOfDay(a.time)
                                                 /\ SecondsOfDay(a.time) <= hi)
            IN /\ Len(c.placed) = Len(shown)
               /\ \A k \in 1..Len(shown) :
                     /\ c.placed[k].time = shown[k].time
                     /\ c.placed[k].text = shown[k].text
                     /\ c.placed[k].y = YLevelStart + (k - 1) * YLevelStep

C10_Witness ==
    /\ pc = "plotting"
    /\ Len(charts) = 2
    /\ Len(schedule_data.annotations) = 3
    /\ schedule_data.annotations[1].time = At(9, 10, 0)
    /\ schedule_data.annotations[2].time = At(9, 5, 0)
    /\ schedule_data.annotations[3].time = At(9, 0, 0)
    /\ charts[1].signal = "EA"
    /\ Len(charts[1].placed) = 1
    /\ charts[1].placed[1].time = At(9, 5, 0)
    /\ charts[1].placed[1].y = -15
    /\ charts[2].signal = "HR"
    /\ Len(charts[2].placed) = 3
    /\ charts[2].placed[3].time = At(9, 0, 0)
    /\ charts[2].placed[3].y = -31

====
